---- MODULE Spec2Model ----
(***************************************************************************)
(* Model of the executable artefacts of cellxgene-census kept in src/:     *)
(*   - tools/cell_dup_check/finddups.ipynb, the "find duplicate cells"     *)
(*     notebook: its hashing cell and the failures of it (specification    *)
(*     Spec), its report cells (specification SpecReports) and the report  *)
(*     cells on a query of primary cells only (SpecOverlap);               *)
(*   - the model training notebook (unnamed/part_001): the split of the    *)
(*     datapipe and the training epochs (SpecSplit), the labels of a batch *)
(*     and the decoding of the predictions (SpecTrain);                    *)
(*   - the GitHub Actions workflow "Python cellxgene_census package unit   *)
(*     tests": its triggers (SpecTrigger), one job on its runner (SpecJob) *)
(*     and a workflow run (SpecWorkflow).                                  *)
(***************************************************************************)
EXTENDS Integers, Sequences, FiniteSets, TLC

\* ---------------------------------------------------------------- bounds
\* number of obs rows (cells) of the axis query: 1..MaxCells
MaxCells == 3
\* number of var columns (genes) of the X layer
NumGenes == 2
\* largest count stored in X["raw"]
MaxCount == 2
\* row_stride is 250_000 in the notebook; the model draws it from 1..MaxStride
MaxStride == 2
\* number of non-zero entries of the X layer (the layer is sparse)
MaxNnz == 3
\* number of distinct hash values in obs_df when the report cells start
NumHashes == 2
\* number of dataset_id values
NumDatasets == 2
\* number of obs rows of a query in which every cell is primary: 1..MaxPrimaryCells
MaxPrimaryCells == 4
\* number of obs rows of the query of experiment_datapipe: 1..MaxRows, and
\* 1..MaxSplitRows where all rows have the same cell_type
MaxRows == 3
MaxSplitRows == 6
\* batch_size is 16 in the training notebook; the model uses
batch_size == 2
\* number of cell_type values of the obs rows
NumCellTypes == 2

VARIABLES
    \* ---- find-duplicates notebook
    census,                  \* the Census handle of the with statement of line 77
    query,                   \* the axis query of the with statement of line 89
    X,                       \* X["raw"] of the query: soma_joinid -> dense row
    obs_df,                  \* DataFrame: sequence of rows (records)
    datasets_df,             \* census_info.datasets without soma_joinid
    row_stride,
    iter_pos,                \* X_sparse_iter: number of chunks already yielded
    obs_soma_joinids_chunk,  \* loop variable of the outer for
    X_chunk,                 \* loop variable of the outer for (CSR matrix)
    r,                       \* enumerate() position of the inner for
    hashes,                  \* pd.Series indexed by soma_joinid
    times_hashed,            \* history: executions of line 115 per soma_joinid
    prog_value,              \* prog.value
    pc,                      \* position of the notebook's execution
    raised,                  \* exception that stopped the run, "" if none
    defined,                 \* notebook globals bound by the report cells
    value_counts_frame,      \* hash_primary_pivot after cell 3 (long form)
    hash_primary_pivot,      \* hash_primary_pivot after cell 4 (pivot table)
    obs_missing_primary,
    datasets_with_missing_primary,
    obs_duplicate_primary,
    datasets_with_dup_primary,
    overlapping_dup_datasets,
    displayed_datasets,      \* the tables displayed by the for loop of cell 9
    \* ---- workflow triggers
    ci_event,                \* the last event delivered to the repository
    ci_triggered,            \* whether that event created a workflow run
    \* ---- one job of the workflow on its runner
    job_instance,            \* the job and its matrix values
    step_log,                \* the steps processed so far, with their outcomes
    job_conclusion,          \* "" while the job runs
    \* ---- a workflow run
    wf_status,               \* job instance -> status
    wf_cancel_requested,     \* the run was cancelled by a user
    wf_submit_log,           \* step log of submit-codecoverage
    wf_submit_started,       \* history: submit-codecoverage was started
    \* ---- training notebook
    obs_rows,                \* obs rows of the query of experiment_datapipe
    mt_stream,               \* the variates random.Random(seed) produces
    splitter,                \* state of the RandomSplitter behind the three splits
    draws_seen,              \* history: batch -> keys drawn for it, all iterations
    yielded_by,              \* history: batch -> splits that yielded it
    experiment_dataloader,   \* the split the DataLoader of that name reads
    epoch,                   \* loop variable of the training loop
    dl_iter,                 \* batches the current DataLoader iterator still yields
    epoch_counts,            \* history: per call of train_epoch, batch -> times processed
    returned,                \* history: calls of train_epoch that returned
    train_correct,
    train_total,
    train_accuracy,
    y_batch,                 \* y_batch of the batch at hand (rows of two columns)
    predictions,
    compared_labels,         \* history: labels compared with predictions (line 383)
    loss_target,             \* history: target passed to loss_fn (line 386)
    predicted_cell_types,
    result_frame,            \* the DataFrame of cell f4ac8087
    tpc,                     \* position of the training notebook's execution
    t_raised                 \* exception that stopped it, "" if none

nbvars == <<census, query, X, obs_df, datasets_df, row_stride, iter_pos, obs_soma_joinids_chunk,
            X_chunk, r, hashes, times_hashed, prog_value, pc, raised, defined,
            value_counts_frame, hash_primary_pivot, obs_missing_primary,
            datasets_with_missing_primary, obs_duplicate_primary,
            datasets_with_dup_primary, overlapping_dup_datasets,
            displayed_datasets>>

triggervars == <<ci_event, ci_triggered>>
jobvars == <<job_instance, step_log, job_conclusion>>
wfvars == <<wf_status, wf_cancel_requested, wf_submit_log, wf_submit_started>>
civars == <<triggervars, jobvars, wfvars>>

splitvars == <<obs_rows, mt_stream, splitter, draws_seen, yielded_by>>
epochvars == <<experiment_dataloader, epoch, dl_iter, epoch_counts, returned, train_correct, train_total,
               train_accuracy>>
batchvars == <<y_batch, predictions, compared_labels, loss_target>>
decodevars == <<predicted_cell_types, result_frame>>
trainvars == <<splitvars, epochvars, batchvars, decodevars, tpc, t_raised>>

vars == <<nbvars, civars, trainvars>>

\* ------------------------------------------------------------ generic helpers
Range(s) == {s[i] : i \in 1..Len(s)}

Min(a, b) == IF a < b THEN a ELSE b

RECURSIVE Concat(_)
Concat(ss) == IF ss = <<>> THEN <<>> ELSE Head(ss) \o Concat(Tail(ss))

RECURSIVE SelectSeqIdx(_, _)
\* the indices in 1..k (ascending) at which the row is non-zero
SelectSeqIdx(row, k) ==
    IF k = 0 THEN <<>>
    ELSE IF row[k] # 0 THEN Append(SelectSeqIdx(row, k - 1), k)
         ELSE SelectSeqIdx(row, k - 1)

\* lexicographic order on sequences of integers (shorter prefix first)
RECURSIVE LexLess(_, _)
LexLess(a, b) ==
    IF a = <<>> THEN b # <<>>
    ELSE IF b = <<>> THEN FALSE
    ELSE IF Head(a) # Head(b) THEN Head(a) < Head(b)
    ELSE LexLess(Tail(a), Tail(b))

\* ------------------------------------------------ sparse matrices (scipy CSR)
\* The non-zero entries of one dense row, as scipy stores them: values and
\* their column indices (0-based), in column order.
RowData(row) == [i \in 1..Len(SelectSeqIdx(row, NumGenes)) |->
                    row[SelectSeqIdx(row, NumGenes)[i]]]
RowIndices(row) == [i \in 1..Len(SelectSeqIdx(row, NumGenes)) |->
                    SelectSeqIdx(row, NumGenes)[i] - 1]

RECURSIVE IndPtr(_)
\* CSR row pointer of a sequence of dense rows: cumulative count of non-zeros
IndPtr(rows) ==
    IF rows = <<>> THEN <<0>>
    ELSE LET p == IndPtr(SubSeq(rows, 1, Len(rows) - 1))
         IN  Append(p, p[Len(p)] + Len(RowData(rows[Len(rows)])))

\* csr_matrix holding the dense rows
CsrMatrix(rows) ==
    [data    |-> Concat([i \in 1..Len(rows) |-> RowData(rows[i])]),
     indices |-> Concat([i \in 1..Len(rows) |-> RowIndices(rows[i])]),
     indptr  |-> IndPtr(rows)]

\* X_sparse_iter(query, X_name="raw", stride=row_stride): the k-th chunk
\* (k = 0, 1, ...) holds the obs soma_joinids k*stride .. (k+1)*stride - 1 of
\* the query and the CSR matrix of their rows, row i of the matrix belonging
\* to the i-th soma_joinid of the chunk.
NumChunks(n_obs, stride) == (n_obs + stride - 1) \div stride

ChunkJoinids(k, n_obs, stride) ==
    [i \in 1..(Min((k + 1) * stride, n_obs) - k * stride) |-> k * stride + i - 1]

X_sparse_iter(x, n_obs, stride, k) ==
    [obs_joinids |-> ChunkJoinids(k, n_obs, stride),
     X_chunk     |-> CsrMatrix([i \in 1..Len(ChunkJoinids(k, n_obs, stride)) |->
                                   x[ChunkJoinids(k, n_obs, stride)[i]]])]

\* getrow as a slice of the chunk's own indptr (indptr not rebased)
getrow_not_rebased(m, row) ==
    [data    |-> SubSeq(m.data, m.indptr[row + 1] + 1, m.indptr[row + 2]),
     indices |-> SubSeq(m.indices, m.indptr[row + 1] + 1, m.indptr[row + 2]),
     indptr  |-> <<m.indptr[row + 1], m.indptr[row + 2]>>]

\* getrow that ignores its argument and returns the first row
getrow_first_row(m, row) ==
    [data    |-> SubSeq(m.data, m.indptr[1] + 1, m.indptr[2]),
     indices |-> SubSeq(m.indices, m.indptr[1] + 1, m.indptr[2]),
     indptr  |-> <<0, m.indptr[2] - m.indptr[1]>>]

\* X_chunk.getrow(row): the 1 x n CSR matrix of row number `row` (0-based);
\* its indptr is rebased to [0, nnz]
getrow(m, row) ==
    [data    |-> SubSeq(m.data, m.indptr[row + 1] + 1, m.indptr[row + 2]),
     indices |-> SubSeq(m.indices, m.indptr[row + 1] + 1, m.indptr[row + 2]),
     indptr  |-> <<0, m.indptr[row + 2] - m.indptr[row + 1]>>]

\* ----------------------------------------------------------------- hashing
\* ndarray.tobytes() of a float32 array: IEEE-754 single precision, little
\* endian, four bytes per element (counts are small non-negative integers)
Float32Bytes(v) ==
    CASE v = 0 -> <<0, 0, 0, 0>>
      [] v = 1 -> <<0, 0, 128, 63>>
      [] v = 2 -> <<0, 0, 0, 64>>
      [] v = 3 -> <<0, 0, 64, 64>>
      [] v = 4 -> <<0, 0, 128, 64>>

\* buffer of an int32 array, little endian, four bytes per element
Int32Bytes(v) == <<v % 256, (v \div 256) % 256, (v \div 65536) % 256, 0>>

tobytes(data) == Concat([i \in 1..Len(data) |-> Float32Bytes(data[i])])
BufferOf(ints) == Concat([i \in 1..Len(ints) |-> Int32Bytes(ints[i])])

\* xxhash.xxh3_128(...).hexdigest(): xxh3_128 is taken to be collision-free,
\* so a digest is identified with the byte stream that was fed to the hasher;
\* a digest is never the empty string.
EmptyString == <<>>
hexdigest(bytes) == <<"xxh3_128", bytes>>

\* lines 113-115: the digest stored for one row of a chunk
RowHash(X_row) == hexdigest(tobytes(X_row.data) \o BufferOf(X_row.indptr))

\* ------------------------------------------------------ pandas operations
\* the elements of S as a sequence, ascending by their keys K[x] (sequences
\* of integers, pairwise different)
RECURSIVE SortSet(_, _)
SortSet(S, K) ==
    IF S = {} THEN <<>>
    ELSE LET m == CHOOSE x \in S : \A y \in S \ {x} : LexLess(K[x], K[y])
         IN  <<m>> \o SortSet(S \ {m}, K)

RECURSIVE SumSeq(_)
SumSeq(s) == IF s = <<>> THEN 0 ELSE Head(s) + SumSeq(Tail(s))

BoolKey(b) == IF b THEN 1 ELSE 0

\* DataFrame.value_counts(subset=["hash", "is_primary_data"]).to_frame()
\* .reset_index(): one row per distinct (hash, is_primary_data) pair with the
\* number of rows holding it in column 0 (named count here), most frequent
\* first; pairs of equal frequency in group order
value_counts_hash_primary(df) ==
    LET pairs == {<<df[i].hash, df[i].is_primary_data>> : i \in 1..Len(df)}
        cnt(p) == Cardinality({i \in 1..Len(df) :
                     df[i].hash = p[1] /\ df[i].is_primary_data = p[2]})
        K == [p \in pairs |-> <<Len(df) - cnt(p)>> \o p[1][2] \o <<BoolKey(p[2])>>]
        sorted == SortSet(pairs, K)
    IN  [i \in 1..Len(sorted) |->
            [hash |-> sorted[i][1], is_primary_data |-> sorted[i][2],
             count |-> cnt(sorted[i])]]

\* DataFrame.pivot_table(index="hash", columns="is_primary_data", values=0,
\* fill_value=0): the index holds the distinct hashes of the frame (sorted),
\* the columns the distinct is_primary_data values OF THE FRAME (sorted), each
\* entry the mean (the default aggfunc) of column 0 over the rows of the
\* frame with that hash and that is_primary_data, fill_value where no row has
pivot_table(frame) ==
    LET hs   == {frame[i].hash : i \in 1..Len(frame)}
        cols == {frame[i].is_primary_data : i \in 1..Len(frame)}
        grp(h, b) == SelectSeq(frame, LAMBDA row : row.hash = h /\ row.is_primary_data = b)
        counts(h, b) == [i \in 1..Len(grp(h, b)) |-> grp(h, b)[i].count]
    IN  [index   |-> SortSet(hs, [h \in hs |-> h[2]]),
         columns |-> SortSet(cols, [b \in cols |-> <<BoolKey(b)>>]),
         values  |-> [hb \in hs \X cols |->
                        IF grp(hb[1], hb[2]) = <<>> THEN 0
                        ELSE SumSeq(counts(hb[1], hb[2])) \div Len(grp(hb[1], hb[2]))]]

\* pivot[pivot.loc[:, col] <op> ...].index : the hashes of the pivot, in index
\* order, whose entry in column col satisfies the condition
PivotIndexWhereZero(pivot, col) ==
    SelectSeq(pivot.index, LAMBDA h : pivot.values[<<h, col>>] = 0)
PivotIndexWhereMany(pivot, col) ==
    SelectSeq(pivot.index, LAMBDA h : pivot.values[<<h, col>>] > 1)

\* obs_df.reset_index().set_index("hash").loc[labels].reset_index()
\* .set_index("soma_joinid"): for each label in turn, every row of obs_df
\* with that hash, in the order of obs_df
LocByHash(df, labels) ==
    Concat([k \in 1..Len(labels) |-> SelectSeq(df, LAMBDA row : row.hash = labels[k])])

\* lines 418-424: the rows of obs_df whose hash has a zero in column True
MissingPrimaryReport(df, pivot) == LocByHash(df, PivotIndexWhereZero(pivot, TRUE))

\* lines 750-756 without the filter of lines 757-759
DuplicatePrimaryReport_unfiltered(df, pivot) ==
    LocByHash(df, PivotIndexWhereMany(pivot, TRUE))

\* lines 750-759: the rows of obs_df whose hash has more than one in column
\* True, then those of them with is_primary_data == True
DuplicatePrimaryReport(df, pivot) ==
    SelectSeq(LocByHash(df, PivotIndexWhereMany(pivot, TRUE)),
              LAMBDA row : row.is_primary_data = TRUE)

\* value_counts that counts the distinct hashes of a dataset, not its rows
value_counts_dataset_nunique(df) ==
    LET ids == {df[i].dataset_id : i \in 1..Len(df)}
        cnt(d) == Cardinality({df[i].hash : i \in {k \in 1..Len(df) : df[k].dataset_id = d}})
        sorted == SortSet(ids, [d \in ids |-> <<Len(df) - cnt(d), d>>])
    IN  [i \in 1..Len(sorted) |-> [dataset_id |-> sorted[i], count |-> cnt(sorted[i])]]

\* df.value_counts(subset=["dataset_id"]).to_frame(): one row per distinct
\* dataset_id of df with the number of rows of df holding it
value_counts_dataset(df) ==
    LET ids == {df[i].dataset_id : i \in 1..Len(df)}
        cnt(d) == Cardinality({i \in 1..Len(df) : df[i].dataset_id = d})
        sorted == SortSet(ids, [d \in ids |-> <<Len(df) - cnt(d), d>>])
    IN  [i \in 1..Len(sorted) |-> [dataset_id |-> sorted[i], count |-> cnt(sorted[i])]]

\* left.join(datasets_df.set_index("dataset_id"), on="dataset_id")
\* .reset_index(): a left join, one output row per matching row of the right
\* table, and one row with NaN for a left row without match
JoinDatasets(left, right) ==
    Concat([i \in 1..Len(left) |->
        LET m == SelectSeq(right, LAMBDA d : d.dataset_id = left[i].dataset_id)
        IN  IF m = <<>>
            THEN <<[dataset_id |-> left[i].dataset_id, count |-> left[i].count,
                    dataset_title |-> "NaN"]>>
            ELSE [k \in 1..Len(m) |->
                    [dataset_id |-> left[i].dataset_id, count |-> left[i].count,
                     dataset_title |-> m[k].dataset_title]]])

\* cells 6 and 8: the per-dataset report of a per-cell report
DatasetReport(report, dsets) == JoinDatasets(value_counts_dataset(report), dsets)

\* df.sort_values("dataset_id"): the rows of df ascending by dataset_id
sort_values_dataset_id(df) ==
    LET idx    == 1..Len(df)
        sorted == SortSet(idx, [i \in idx |-> <<df[i].dataset_id, i>>])
    IN  [k \in 1..Len(df) |-> df[sorted[k]]]

\* df[["hash", "dataset_id"]].groupby(by="hash").agg(list): one row per
\* distinct hash of df (sorted), holding the list of the dataset_id values of
\* the rows of df with that hash, in the order of df
groupby_hash_agg_list(df) ==
    LET hs     == {df[i].hash : i \in 1..Len(df)}
        sorted == SortSet(hs, [h \in hs |-> h[2]])
        grp(h) == SelectSeq(df, LAMBDA row : row.hash = h)
    IN  [k \in 1..Len(sorted) |->
            [hash       |-> sorted[k],
             dataset_id |-> [i \in 1..Len(grp(sorted[k])) |->
                                grp(sorted[k])[i].dataset_id]]]

\* np.unique without the removal of repeated elements: the sorted elements
np_sort(frame) ==
    LET idx    == 1..Len(frame)
        sorted == SortSet(idx, [i \in idx |-> frame[i].dataset_id \o <<0, i>>])
    IN  [k \in 1..Len(frame) |-> frame[sorted[k]].dataset_id]

\* np.unique(frame): the frame as a flat object array (its only column holds
\* lists), sorted by the order of Python lists, repeated elements removed
np_unique(frame) ==
    LET lists == {frame[i].dataset_id : i \in 1..Len(frame)}
    IN  SortSet(lists, [l \in lists |-> l])

\* datasets_df.set_index("dataset_id").loc[d] for a list d of labels: for
\* each label in turn the rows of datasets_df with that dataset_id
LocByDatasetId(dsets, d) ==
    Concat([k \in 1..Len(d) |-> SelectSeq(dsets, LAMBDA row : row.dataset_id = d[k])])

\* lines 850-854: overlapping_dup_datasets
OverlapReport(report) ==
    np_unique(groupby_hash_agg_list(sort_values_dataset_id(report)))

\* ------------------------------------------------------------ initial state
Datasets == 1..NumDatasets

\* census_info.datasets: one row per dataset, dataset_id unique
DatasetsTable == [i \in 1..NumDatasets |-> [dataset_id |-> i, dataset_title |-> i]]

n_obs == Len(obs_df)
Joinids == 0..(n_obs - 1)

\* the X layers of n cells with at most MaxNnz non-zero entries, each given
\* by the positions of its non-zero entries and their counts
SparseLayers(n) ==
    {[j \in 0..(n - 1) |-> [g \in 1..NumGenes |->
            IF <<j, g>> \in DOMAIN v THEN v[<<j, g>>] ELSE 0]] :
        v \in UNION {[P -> 1..MaxCount] :
                        P \in {Q \in SUBSET ((0..(n - 1)) \X (1..NumGenes)) :
                                  Cardinality(Q) <= MaxNnz}}}

ReportsNotRun ==
    /\ raised = ""
    /\ defined = {}
    /\ value_counts_frame = <<>>
    /\ hash_primary_pivot = <<>>
    /\ obs_missing_primary = <<>>
    /\ datasets_with_missing_primary = <<>>
    /\ obs_duplicate_primary = <<>>
    /\ datasets_with_dup_primary = <<>>
    /\ overlapping_dup_datasets = <<>>
    /\ displayed_datasets = <<>>

\* Cell 2 at line 108: the census and the query are open, datasets_df and
\* obs_df are read, hashes holds "" for every soma_joinid.  The loop reads
\* only the index of obs_df; its other two columns are drawn in ReportsInit.
NotebookInit ==
    /\ \E n \in 1..MaxCells :
         /\ X \in SparseLayers(n)
         /\ obs_df = [i \in 1..n |-> [soma_joinid     |-> i - 1,
                                      dataset_id      |-> 1,
                                      is_primary_data |-> TRUE]]
         /\ hashes = [j \in 0..(n - 1) |-> EmptyString]
         /\ times_hashed = [j \in 0..(n - 1) |-> 0]
    /\ datasets_df = DatasetsTable
    /\ census = "open" /\ query = "open"
    /\ row_stride \in 1..MaxStride
    /\ iter_pos = 0
    /\ obs_soma_joinids_chunk = <<>>
    /\ X_chunk = CsrMatrix(<<>>)
    /\ r = 0
    /\ prog_value = 0
    /\ pc = "for_chunk"
    /\ ReportsNotRun

\* the digests of the rows with 0, 1, ... entries equal to 1
HashValues ==
    {RowHash([data    |-> [i \in 1..k |-> 1],
              indices |-> [i \in 1..k |-> i - 1],
              indptr  |-> <<0, k>>]) : k \in 0..(NumHashes - 1)}

\* Cell 3: cell 2 has run; obs_df has its hash column.  The report cells read
\* obs_df and datasets_df only.
ReportsInit ==
    /\ \E n \in 1..MaxCells :
         \E hs \in [1..n -> HashValues], ds \in [1..n -> Datasets],
            prim \in [1..n -> BOOLEAN] :
              obs_df = [i \in 1..n |-> [hash            |-> hs[i],
                                        soma_joinid     |-> i - 1,
                                        dataset_id      |-> ds[i],
                                        is_primary_data |-> prim[i]]]
    /\ datasets_df = DatasetsTable
    /\ census = "closed" /\ query = "closed"
    /\ X = <<>> /\ hashes = <<>> /\ times_hashed = <<>>
    /\ row_stride = 0 /\ iter_pos = 0 /\ obs_soma_joinids_chunk = <<>>
    /\ X_chunk = CsrMatrix(<<>>) /\ r = 0 /\ prog_value = 0
    /\ pc = "cell3"
    /\ ReportsNotRun

overlapvars == <<overlapping_dup_datasets, displayed_datasets>>

\* Cell 3 for a query in which every cell has is_primary_data == True
OverlapInit ==
    /\ \E n \in 1..MaxPrimaryCells :
         \E hs \in [1..n -> HashValues], ds \in [1..n -> Datasets] :
              obs_df = [i \in 1..n |-> [hash            |-> hs[i],
                                        soma_joinid     |-> i - 1,
                                        dataset_id      |-> ds[i],
                                        is_primary_data |-> TRUE]]
    /\ datasets_df = DatasetsTable
    /\ census = "closed" /\ query = "closed"
    /\ X = <<>> /\ hashes = <<>> /\ times_hashed = <<>>
    /\ row_stride = 0 /\ iter_pos = 0 /\ obs_soma_joinids_chunk = <<>>
    /\ X_chunk = CsrMatrix(<<>>) /\ r = 0 /\ prog_value = 0
    /\ pc = "cell3"
    /\ ReportsNotRun

withvars == <<census, query>>

reportvars == <<raised, defined, value_counts_frame, hash_primary_pivot,
                obs_missing_primary, datasets_with_missing_primary,
                obs_duplicate_primary, datasets_with_dup_primary, overlapvars>>

\* ------------------------------------------------- cell 2: the hashing loop
\* lines 77 and 89: leaving a with statement, by its end or by an exception,
\* closes its context manager
with_exit(handle) == "closed"

\* an exception caught inside the loop, which then goes on
propagate_swallowed(position) == position

\* nothing in the cell catches an exception: it leaves both for statements
\* and both with statements, and the cell is aborted
propagate(position) == "cell2_aborted"

\* the exception types are not modelled
Cell2Raises ==
    /\ raised' = "Exception"
    /\ pc' = propagate(pc)
    /\ query' = IF pc' = "cell2_aborted" THEN with_exit(query) ELSE query
    /\ census' = IF pc' = "cell2_aborted" THEN with_exit(census) ELSE census
    /\ UNCHANGED <<X, obs_df, datasets_df, row_stride, iter_pos, obs_soma_joinids_chunk,
                   X_chunk, r, hashes, times_hashed, prog_value, defined,
                   value_counts_frame, hash_primary_pivot, obs_missing_primary,
                   datasets_with_missing_primary, obs_duplicate_primary,
                   datasets_with_dup_primary, overlapvars>>
    /\ UNCHANGED <<civars, trainvars>>

\* line 108: X_sparse_iter raises while it reads the next chunk
NextChunkRaises ==
    /\ pc = "for_chunk"
    /\ iter_pos < NumChunks(n_obs, row_stride)
    /\ Cell2Raises

\* lines 112-115: getrow, the hashing or the store raises
HashRowRaises ==
    /\ pc = "for_row"
    /\ r < Len(obs_soma_joinids_chunk)
    /\ Cell2Raises

\* line 117 is reached when the inner for has taken every row of the chunk
InnerForExhausted_early(row, chunk) == row >= 1 \/ Len(chunk) = 0
InnerForExhausted(row, chunk) == row = Len(chunk)

\* line 108: the outer for takes the next chunk from X_sparse_iter
NextChunk ==
    /\ pc = "for_chunk"
    /\ iter_pos < NumChunks(n_obs, row_stride)
    /\ obs_soma_joinids_chunk' = X_sparse_iter(X, n_obs, row_stride, iter_pos).obs_joinids
    /\ X_chunk' = X_sparse_iter(X, n_obs, row_stride, iter_pos).X_chunk
    /\ iter_pos' = iter_pos + 1
    /\ r' = 0
    /\ pc' = "for_row"
    /\ UNCHANGED <<X, obs_df, datasets_df, row_stride, hashes, times_hashed, prog_value,
                   reportvars>>
    /\ UNCHANGED withvars
    /\ UNCHANGED <<civars, trainvars>>

\* lines 111-115: one iteration of the inner for
HashRow ==
    /\ pc = "for_row"
    /\ r < Len(obs_soma_joinids_chunk)
    /\ hashes' = [hashes EXCEPT ![obs_soma_joinids_chunk[r + 1]] = RowHash(getrow(X_chunk, r))]
    /\ times_hashed' = [times_hashed EXCEPT ![obs_soma_joinids_chunk[r + 1]] = @ + 1]
    /\ r' = r + 1
    /\ UNCHANGED <<X, obs_df, datasets_df, row_stride, iter_pos, obs_soma_joinids_chunk,
                   X_chunk, prog_value, pc, reportvars>>
    /\ UNCHANGED withvars
    /\ UNCHANGED <<civars, trainvars>>

\* line 117: the inner for is exhausted, prog.value += 1
ProgressIncr ==
    /\ pc = "for_row"
    /\ InnerForExhausted(r, obs_soma_joinids_chunk)
    /\ prog_value' = prog_value + 1
    /\ pc' = "for_chunk"
    /\ UNCHANGED <<X, obs_df, datasets_df, row_stride, iter_pos, obs_soma_joinids_chunk,
                   X_chunk, r, hashes, times_hashed, reportvars>>
    /\ UNCHANGED withvars
    /\ UNCHANGED <<civars, trainvars>>

\* line 119: the outer for is exhausted, obs_df.insert(0, "hash", hashes);
\* the two with statements end
InsertHash ==
    /\ pc = "for_chunk"
    /\ iter_pos = NumChunks(n_obs, row_stride)
    /\ obs_df' = [i \in 1..n_obs |->
                    [hash            |-> hashes[obs_df[i].soma_joinid],
                     soma_joinid     |-> obs_df[i].soma_joinid,
                     dataset_id      |-> obs_df[i].dataset_id,
                     is_primary_data |-> obs_df[i].is_primary_data]]
    /\ query' = with_exit(query)
    /\ census' = with_exit(census)
    /\ pc' = "cell3"
    /\ UNCHANGED <<X, datasets_df, row_stride, iter_pos, obs_soma_joinids_chunk,
                   X_chunk, r, hashes, times_hashed, prog_value, reportvars>>
    /\ UNCHANGED <<civars, trainvars>>

\* ------------------------------------------------------------ report cells
\* "hash" in obs_df.columns
HasHashColumn(df) == \A i \in 1..Len(df) : "hash" \in DOMAIN df[i]

hashvars == <<X, obs_df, datasets_df, row_stride, iter_pos, obs_soma_joinids_chunk,
              X_chunk, r, hashes, times_hashed, prog_value>>

\* cell 3 (lines 248-256): hash_primary_pivot = obs_df.value_counts(...)
\* after an aborted cell 2 obs_df has no column hash and value_counts raises
Cell3ValueCounts ==
    /\ pc \in {"cell3", "cell2_aborted"}
    /\ IF HasHashColumn(obs_df)
       THEN /\ value_counts_frame' = value_counts_hash_primary(obs_df)
            /\ pc' = "cell4"
            /\ UNCHANGED raised
       ELSE /\ raised' = "KeyError"
            /\ pc' = "error"
            /\ UNCHANGED value_counts_frame
    /\ UNCHANGED <<hashvars, defined, hash_primary_pivot, obs_missing_primary,
                   datasets_with_missing_primary, obs_duplicate_primary,
                   datasets_with_dup_primary>>
    /\ UNCHANGED overlapvars
    /\ UNCHANGED withvars
    /\ UNCHANGED <<civars, trainvars>>

\* cell 4 (line 265): hash_primary_pivot = hash_primary_pivot.pivot_table(...)
Cell4PivotTable ==
    /\ pc = "cell4"
    /\ hash_primary_pivot' = pivot_table(value_counts_frame)
    /\ defined' = defined \cup {"hash_primary_pivot"}
    /\ pc' = "cell5"
    /\ UNCHANGED <<hashvars, raised, value_counts_frame, obs_missing_primary,
                   datasets_with_missing_primary, obs_duplicate_primary,
                   datasets_with_dup_primary>>
    /\ UNCHANGED overlapvars
    /\ UNCHANGED withvars
    /\ UNCHANGED <<civars, trainvars>>

\* hash_primary_pivot.loc[:, True] raises KeyError when the pivot has no
\* column True; the cell stops there and binds nothing
HasColumn(pivot, col) == col \in Range(pivot.columns)

\* cell 5 (lines 418-425): obs_missing_primary
Cell5MissingPrimary ==
    /\ pc = "cell5"
    /\ IF HasColumn(hash_primary_pivot, TRUE)
       THEN /\ obs_missing_primary' = MissingPrimaryReport(obs_df, hash_primary_pivot)
            /\ defined' = defined \cup {"obs_missing_primary"}
            /\ pc' = "cell6"
            /\ UNCHANGED raised
       ELSE /\ raised' = "KeyError"
            /\ pc' = "error"
            /\ UNCHANGED <<obs_missing_primary, defined>>
    /\ UNCHANGED <<hashvars, value_counts_frame, hash_primary_pivot,
                   datasets_with_missing_primary, obs_duplicate_primary,
                   datasets_with_dup_primary>>
    /\ UNCHANGED overlapvars
    /\ UNCHANGED withvars
    /\ UNCHANGED <<civars, trainvars>>

\* cell 6 (lines 683-690): datasets_with_missing_primary
Cell6DatasetsMissing ==
    /\ pc = "cell6"
    /\ datasets_with_missing_primary' = DatasetReport(obs_missing_primary, datasets_df)
    /\ defined' = defined \cup {"datasets_with_missing_primary"}
    /\ pc' = "cell7"
    /\ UNCHANGED <<hashvars, raised, value_counts_frame, hash_primary_pivot,
                   obs_missing_primary, obs_duplicate_primary, datasets_with_dup_primary>>
    /\ UNCHANGED overlapvars
    /\ UNCHANGED withvars
    /\ UNCHANGED <<civars, trainvars>>

\* cell 7 (lines 750-760): obs_duplicate_primary, then its rows with
\* is_primary_data == True
Cell7DuplicatePrimary ==
    /\ pc = "cell7"
    /\ IF HasColumn(hash_primary_pivot, TRUE)
       THEN /\ obs_duplicate_primary' = DuplicatePrimaryReport(obs_df, hash_primary_pivot)
            /\ defined' = defined \cup {"obs_duplicate_primary"}
            /\ pc' = "cell8"
            /\ UNCHANGED raised
       ELSE /\ raised' = "KeyError"
            /\ pc' = "error"
            /\ UNCHANGED <<obs_duplicate_primary, defined>>
    /\ UNCHANGED <<hashvars, value_counts_frame, hash_primary_pivot, obs_missing_primary,
                   datasets_with_missing_primary, datasets_with_dup_primary>>
    /\ UNCHANGED overlapvars
    /\ UNCHANGED withvars
    /\ UNCHANGED <<civars, trainvars>>

\* cell 8 (lines 819-826): datasets_with_dup_primary
Cell8DatasetsDup ==
    /\ pc = "cell8"
    /\ datasets_with_dup_primary' = DatasetReport(obs_duplicate_primary, datasets_df)
    /\ defined' = defined \cup {"datasets_with_dup_primary"}
    /\ pc' = "cell9"
    /\ UNCHANGED <<hashvars, raised, value_counts_frame, hash_primary_pivot,
                   obs_missing_primary, datasets_with_missing_primary,
                   obs_duplicate_primary>>
    /\ UNCHANGED overlapvars
    /\ UNCHANGED withvars
    /\ UNCHANGED <<civars, trainvars>>

\* cell 9 (lines 850-859): overlapping_dup_datasets, then one displayed
\* table of datasets per element of it; obs_duplicate_primary is unbound
\* (NameError) when cell 7 did not complete
Cell9OverlappingDatasets ==
    /\ pc = "cell9"
    /\ overlapping_dup_datasets' = OverlapReport(obs_duplicate_primary)
    /\ displayed_datasets' =
          [k \in 1..Len(overlapping_dup_datasets') |->
              LocByDatasetId(datasets_df, overlapping_dup_datasets'[k])]
    /\ defined' = defined \cup {"overlapping_dup_datasets"}
    /\ pc' = "done"
    /\ UNCHANGED <<hashvars, raised, value_counts_frame, hash_primary_pivot,
                   obs_missing_primary, datasets_with_missing_primary,
                   obs_duplicate_primary, datasets_with_dup_primary>>
    /\ UNCHANGED withvars
    /\ UNCHANGED <<civars, trainvars>>

Next ==
    \/ NextChunk
    \/ NextChunkRaises
    \/ HashRow
    \/ HashRowRaises
    \/ ProgressIncr
    \/ InsertHash
    \/ Cell3ValueCounts

ReportsNext ==
    \/ Cell3ValueCounts
    \/ Cell4PivotTable
    \/ Cell5MissingPrimary
    \/ Cell6DatasetsMissing
    \/ Cell7DuplicatePrimary
    \/ Cell8DatasetsDup
    \/ Cell9OverlappingDatasets

\* ======================================================================
\* The workflow "Python cellxgene_census package unit tests"
\* ======================================================================
\* ---- on: (lines 3-8)
\* a path or a glob is a sequence of segments; "api/r/**" is
paths_ignore_api == {<<"api", "**">>}
paths_ignore == {<<"api", "r", "**">>}
push_branches == {"main"}

\* a path filter pattern against a path from the repository root: a segment
\* matches itself, a trailing ** matches one or more remaining segments
RECURSIVE GlobMatch(_, _)
GlobMatch(pat, path) ==
    IF pat = <<>> THEN path = <<>>
    ELSE IF pat = <<"**">> THEN path # <<>>
    ELSE /\ path # <<>>
         /\ Head(pat) = Head(path)
         /\ GlobMatch(Tail(pat), Tail(path))

\* pull_request has no types: key, so the default activity types apply;
\* paths-ignore: the event is dropped when every changed file matches a pattern
\* push has only branches: so a tag push is dropped, and a branch push is kept
\* when the branch matches one of the patterns
Triggers(e) ==
    CASE e.type = "pull_request" ->
            \E f \in e.changed : \A pat \in paths_ignore : ~GlobMatch(pat, f)
      [] e.type = "push" ->
            e.ref_type = "branch" /\ e.ref \in push_branches
      [] OTHER -> FALSE

ChangedFiles ==
    {<<"api", "r", "DESCRIPTION">>, <<"api", "r", "R", "open.R">>,
     <<"api", "python", "setup.py">>, <<"api", "r">>, <<"api", "rust", "lib.rs">>,
     <<"tools", "api", "r", "x.R">>, <<"README.md">>}
PullRequestActivity == {"opened", "synchronize", "reopened"}
RefNames == {"main", "dev", "release"}
NoEvent == [type |-> "none"]

Push ==
    \E t \in {"branch", "tag"}, name \in RefNames :
        /\ ci_event' = [type |-> "push", ref_type |-> t, ref |-> name]
        /\ ci_triggered' = Triggers(ci_event')
        /\ UNCHANGED <<nbvars, trainvars, jobvars, wfvars>>

PullRequest ==
    \E a \in PullRequestActivity, files \in (SUBSET ChangedFiles) \ {{}} :
        /\ ci_event' = [type |-> "pull_request", action |-> a, changed |-> files]
        /\ ci_triggered' = Triggers(ci_event')
        /\ UNCHANGED <<nbvars, trainvars, jobvars, wfvars>>

\* ---- jobs: (lines 10-102)
matrix_os == <<"ubuntu-latest", "macos-latest">>
matrix_python_version == <<"3.8", "3.9", "3.10", "3.11">>

ApiInstances ==
    {[job |-> "unit_tests_python_api", os |-> o, python |-> p] :
        o \in Range(matrix_os), p \in Range(matrix_python_version)}
BuilderInstances ==
    {[job |-> "unit_tests_builder", os |-> "ubuntu-latest", python |-> "3.10"]}
TestInstances == ApiInstances \cup BuilderInstances
Submit == [job |-> "submit-codecoverage", os |-> "ubuntu-20.04", python |-> "3.10"]
Instances == TestInstances \cup {Submit}

Step(name, cond, is_pytest) == [name |-> name, if |-> cond, pytest |-> is_pytest]

Steps(job) ==
    CASE job = "unit_tests_python_api" ->
            <<Step("actions/checkout@v3", "", FALSE),
              Step("Set up Python", "", FALSE),
              Step("Install dependencies (including experimental)", "", FALSE),
              Step("Test with pytest (API, main tests)", "", TRUE),
              Step("Test with pytest (API, experimental)", "", TRUE),
              Step("actions/upload-artifact@v3", "matrix.os == 'ubuntu-latest'", FALSE)>>
      [] job = "unit_tests_builder" ->
            <<Step("actions/checkout@v3", "", FALSE),
              Step("Set up Python", "", FALSE),
              Step("Install dependencies", "", FALSE),
              Step("Test with pytest (builder)", "", TRUE),
              Step("actions/upload-artifact@v3", "", FALSE)>>
      [] job = "submit-codecoverage" ->
            <<Step("actions/checkout@v2", "", FALSE),
              Step("actions/download-artifact@v3", "", FALSE),
              Step("actions/setup-python@v4", "", FALSE),
              Step("install requirements", "", FALSE),
              Step("coverage report", "", FALSE),
              Step("Upload coverage to Codecov", "", FALSE)>>

submit_needs_builder_only == {"unit_tests_builder"}
submit_needs == {"unit_tests_builder", "unit_tests_python_api"}

\* the if: expression of a step, evaluated for a job instance
StepIf(step, inst) ==
    CASE step.if = "" -> TRUE
      [] step.if = "matrix.os == 'ubuntu-latest'" -> inst.os = "ubuntu-latest"

NoFailure(log) == \A i \in 1..Len(log) : log[i].outcome # "failure"

\* a step whose if: runs whatever happened before (as with always())
StepRuns_always(step, inst, log) == StepIf(step, inst)

\* A step has no continue-on-error and its if: calls no status function, so
\* success() is implied: it runs when no earlier step of the job has failed
\* and its if: holds; otherwise it is skipped.
StepRuns(step, inst, log) == NoFailure(log) /\ StepIf(step, inst)

Conclusion(log) == IF NoFailure(log) THEN "success" ELSE "failure"

\* the whole list of steps, processed in order; outcomes[i] is what step i
\* yields if it runs
RECURSIVE ExecSteps(_, _, _, _)
ExecSteps(steps, inst, outcomes, log) ==
    IF Len(log) = Len(steps) THEN log
    ELSE LET step == steps[Len(log) + 1]
         IN  ExecSteps(steps, inst, outcomes,
                 Append(log, [step    |-> step.name,
                              outcome |-> IF StepRuns(step, inst, log)
                                          THEN outcomes[Len(log) + 1]
                                          ELSE "skipped"]))

\* ---- one job on its runner, step by step
RunStep ==
    /\ job_conclusion = ""
    /\ Len(step_log) < Len(Steps(job_instance.job))
    /\ LET step == Steps(job_instance.job)[Len(step_log) + 1]
       IN  \E outcome \in {"success", "failure"} :
              step_log' = Append(step_log,
                  [step    |-> step.name,
                   outcome |-> IF StepRuns(step, job_instance, step_log)
                               THEN outcome ELSE "skipped"])
    /\ UNCHANGED <<job_instance, job_conclusion, nbvars, trainvars, triggervars, wfvars>>

CompleteJob ==
    /\ job_conclusion = ""
    /\ Len(step_log) = Len(Steps(job_instance.job))
    /\ job_conclusion' = Conclusion(step_log)
    /\ UNCHANGED <<job_instance, step_log, nbvars, trainvars, triggervars, wfvars>>

\* ---- a workflow run: the test jobs run concurrently, each on its own
\* runner; a job of the run is queued until it concludes
Concluded(st) == st \in {"success", "failure", "cancelled", "skipped"}

\* strategy.fail-fast is not set, so it is true: a failed instance of a matrix
\* makes GitHub cancel the instances of that matrix still queued or running
CancelPending(j) ==
    \/ wf_cancel_requested
    \/ \E k \in TestInstances : k.job = j.job /\ wf_status[k] = "failure"

\* the conclusions a job instance can reach, over all outcomes of its steps
JobConclusions ==
    [j \in TestInstances |->
        {Conclusion(ExecSteps(Steps(j.job), j, outcomes, <<>>)) :
            outcomes \in [1..Len(Steps(j.job)) -> {"success", "failure"}]}]

\* a test job runs all its steps and concludes
RunTestJob ==
    \E j \in TestInstances :
        /\ wf_status[j] = "queued"
        /\ \E conclusion \in JobConclusions[j] :
              wf_status' = [wf_status EXCEPT ![j] = conclusion]
        /\ UNCHANGED <<wf_cancel_requested, wf_submit_log, wf_submit_started,
                       nbvars, trainvars, triggervars, jobvars>>

\* a queued or running job is cancelled (fail-fast, or the run was cancelled)
CancelJob ==
    \E j \in Instances :
        /\ wf_status[j] \in {"queued", "in_progress"}
        /\ IF j = Submit THEN wf_cancel_requested ELSE CancelPending(j)
        /\ wf_status' = [wf_status EXCEPT ![j] = "cancelled"]
        /\ UNCHANGED <<wf_cancel_requested, wf_submit_log, wf_submit_started,
                       nbvars, trainvars, triggervars, jobvars>>

\* a user cancels the run while a job is still to conclude
CancelRun ==
    /\ ~wf_cancel_requested
    /\ \E j \in Instances : ~Concluded(wf_status[j])
    /\ wf_cancel_requested' = TRUE
    /\ UNCHANGED <<wf_status, wf_submit_log, wf_submit_started,
                   nbvars, trainvars, triggervars, jobvars>>

\* needs: (lines 73-75) the job has no if:, so success() is implied: it starts
\* once every instance of every needed job has concluded, and only if all of
\* them succeeded; otherwise it is skipped
NeededInstances == {j \in TestInstances : j.job \in submit_needs}

SubmitStart ==
    /\ wf_status[Submit] = "queued"
    /\ ~wf_cancel_requested
    /\ \A j \in NeededInstances : Concluded(wf_status[j])
    /\ IF \A j \in NeededInstances : wf_status[j] = "success"
       THEN /\ wf_status' = [wf_status EXCEPT ![Submit] = "in_progress"]
            /\ wf_submit_started' = TRUE
       ELSE /\ wf_status' = [wf_status EXCEPT ![Submit] = "skipped"]
            /\ UNCHANGED wf_submit_started
    /\ UNCHANGED <<wf_cancel_requested, wf_submit_log, nbvars, trainvars, triggervars, jobvars>>

SubmitStep ==
    /\ wf_status[Submit] = "in_progress"
    /\ Len(wf_submit_log) < Len(Steps(Submit.job))
    /\ LET step == Steps(Submit.job)[Len(wf_submit_log) + 1]
       IN  \E outcome \in {"success", "failure"} :
              wf_submit_log' = Append(wf_submit_log,
                  [step    |-> step.name,
                   outcome |-> IF StepRuns(step, Submit, wf_submit_log)
                               THEN outcome ELSE "skipped"])
    /\ UNCHANGED <<wf_status, wf_cancel_requested, wf_submit_started,
                   nbvars, trainvars, triggervars, jobvars>>

SubmitComplete ==
    /\ wf_status[Submit] = "in_progress"
    /\ Len(wf_submit_log) = Len(Steps(Submit.job))
    /\ wf_status' = [wf_status EXCEPT ![Submit] = Conclusion(wf_submit_log)]
    /\ UNCHANGED <<wf_cancel_requested, wf_submit_log, wf_submit_started,
                   nbvars, trainvars, triggervars, jobvars>>

\* ======================================================================
\* The notebook "Training a PyTorch Model"
\* ======================================================================
\* ---- sklearn LabelEncoder
\* cell_type values, in the order of Python strings
Vocabulary == <<"basal cell", "epithelial cell", "fibroblast", "keratinocyte">>
CellTypes == {Vocabulary[i] : i \in 1..NumCellTypes}
StrRank(str) == CHOOSE i \in 1..Len(Vocabulary) : Vocabulary[i] = str

\* LabelEncoder().fit(values).classes_: the distinct values, sorted
LabelEncoder_fit(values) ==
    LET S == Range(values) IN SortSet(S, [x \in S |-> <<StrRank(x)>>])

\* encoder.transform: the position of the value in classes_, from 0
transform(classes_, value) == (CHOOSE i \in 1..Len(classes_) : classes_[i] = value) - 1

\* inverse_transform that reads classes_ from its end
inverse_transform_reversed(classes_, codes) ==
    [i \in 1..Len(codes) |-> classes_[Len(classes_) - codes[i]]]

\* encoder.inverse_transform(codes): classes_[code] for each code
inverse_transform(classes_, codes) ==
    [i \in 1..Len(codes) |-> classes_[codes[i] + 1]]

\* ---- ExperimentDataPipe(experiment, obs_column_names=["cell_type"],
\* batch_size=batch_size): yields the obs rows of the query in their order,
\* batch_size rows per batch (the last batch may be shorter)
CellTypeColumn(rows) == [i \in 1..Len(rows) |-> rows[i].cell_type]

\* experiment_datapipe.obs_encoders["cell_type"]: fitted on the cell_type
\* values of all obs rows of the query
obs_encoders_cell_type(rows) == LabelEncoder_fit(CellTypeColumn(rows))

NumBatchesOf(rows) == (Len(rows) + batch_size - 1) \div batch_size
BatchRows(rows, k) ==
    SubSeq(rows, (k - 1) * batch_size + 1, Min(k * batch_size, Len(rows)))

\* the y tensor of batch k: one row per obs row, column 0 its soma_joinid,
\* column 1 its encoded cell_type
y_tensor(rows, k) ==
    [i \in 1..Len(BatchRows(rows, k)) |->
        <<BatchRows(rows, k)[i].soma_joinid,
          transform(obs_encoders_cell_type(rows), BatchRows(rows, k)[i].cell_type)>>]

\* len(experiment_datapipe): the number of obs rows (shape[0])
datapipe_len(rows) == Len(rows)

\* ---- torchdata RandomSplitter
keys == <<"train", "validation", "test">>
\* weights={"train": 0.8, "validation": 0.1, "test": 0.1} as exact fractions
\* nums[i] / den
split_weights == [nums |-> <<8, 1, 1>>, den |-> 10]
\* seed=None, written as a negative number
seed_None == 0 - 1
\* seed=1
seed == 1

\* random.random() in tenths; the variates at the borders of the weights
Variates == {0, 7, 8, 9}
\* a variate that draws "train" and one that draws "test"
TrainTestVariates == {0, 9}

\* random.Random(s): with an int seed the generator starts the stream of
\* that seed; with None it is seeded from the operating system
random_Random(s, entropy) == IF s < 0 THEN entropy ELSE 0

\* normalize_weights(weights, total_length): w * total_length / sum(weights)
normalize_weights(w, total_length) ==
    [nums |-> [i \in 1..Len(w.nums) |-> w.nums[i] * total_length],
     den  |-> SumSeq(w.nums)]

RECURSIVE CumSum(_, _)
CumSum(s, k) == IF k = 0 THEN 0 ELSE s[k] + CumSum(s, k - 1)

\* random.choices(keys, weights)[0] for the variate v / 10: the first key
\* whose cumulative weight exceeds v / 10 of the total, else the last key
choices(w, v) ==
    LET hit == {k \in 1..Len(w.nums) : 10 * CumSum(w.nums, k) > v * SumSeq(w.nums)}
    IN  IF hit = {} THEN Len(w.nums)
        ELSE CHOOSE k \in hit : \A j \in hit : k <= j

\* _RandomSplitterIterDataPipe.draw(): the key of the next sample; the
\* weight of the key shrinks by one and, once negative, is set to zero and
\* the weights are normalized to the remaining length
draw(sp, stream) ==
    LET k     == choices(sp.weights, stream[(sp.rng_pos % Len(stream)) + 1])
        nums1 == [sp.weights.nums EXCEPT ![k] = @ - sp.weights.den]
        rem   == sp.remaining_length - 1
    IN  [key   |-> keys[k],
         state |-> [rng_pos          |-> sp.rng_pos + 1,
                    remaining_length |-> rem,
                    weights |->
                        IF nums1[k] < 0
                        THEN normalize_weights(
                                 [nums |-> [nums1 EXCEPT ![k] = 0],
                                  den  |-> sp.weights.den], rem)
                        ELSE [nums |-> nums1, den |-> sp.weights.den]]]

\* _RandomSplitterIterDataPipe.reset()
reset(rows, entropy) ==
    [rng_pos          |-> random_Random(seed, entropy),
     remaining_length |-> datapipe_len(rows),
     weights          |-> normalize_weights(split_weights, datapipe_len(rows))]

\* the keys drawn for the first k samples of the source, from state sp
RECURSIVE DrawAll(_, _, _)
DrawAll(sp, stream, k) ==
    IF k = 0 THEN [keys |-> <<>>, state |-> sp]
    ELSE LET prev == DrawAll(sp, stream, k - 1)
             d    == draw(prev.state, stream)
         IN  [keys |-> Append(prev.keys, d.key), state |-> d.state]

\* ---- the notebook's cells
\* for epoch in range(NumEpochs)
NumEpochs == 5

Orders(S) ==
    {f \in [1..Cardinality(S) -> S] : \A i, j \in 1..Cardinality(S) : f[i] = f[j] => i = j}

\* output_dim = len(cell_type_encoder.classes_)
output_dim(rows) == Len(obs_encoders_cell_type(rows))

\* y_batch[:, 0]
label_column_first(y) == [i \in 1..Len(y) |-> y[i][1]]

\* line 380: y_batch[:, 1]
label_column(y) == [i \in 1..Len(y) |-> y[i][2]]

\* (predictions == y_batch).sum().item()
CountEqual(a, b) == Cardinality({i \in 1..Len(a) : a[i] = b[i]})

\* the rows drawn for the query, and the stream of the seed
TrainingInputs(max_rows, cell_types, variates) ==
    /\ \E n \in 1..max_rows : \E ct \in [1..n -> cell_types] :
          obs_rows = [i \in 1..n |-> [soma_joinid |-> i - 1, cell_type |-> ct[i]]]
    /\ mt_stream \in [1..(NumBatchesOf(obs_rows) + 1) -> variates]

\* cell 133f594f is about to run
TrainingNotStarted ==
    /\ splitter = <<>> /\ draws_seen = <<>> /\ yielded_by = <<>>
    /\ experiment_dataloader = "" /\ epoch = 0 /\ dl_iter = <<>>
    /\ epoch_counts = <<>> /\ returned = 0
    /\ train_correct = 0 /\ train_total = 0 /\ train_accuracy = <<>>
    /\ y_batch = <<>> /\ predictions = <<>> /\ compared_labels = <<>>
    /\ loss_target = <<>> /\ predicted_cell_types = <<>> /\ result_frame = <<>>
    /\ tpc = "random_split" /\ t_raised = ""

othervars == <<nbvars, civars>>

\* cell 133f594f: experiment_datapipe.random_split(weights=..., seed=seed)
RandomSplit ==
    /\ tpc = "random_split"
    /\ \E entropy \in 0..(Len(mt_stream) - 1) : splitter' = reset(obs_rows, entropy)
    /\ draws_seen' = [k \in 1..NumBatchesOf(obs_rows) |-> {}]
    /\ yielded_by' = [k \in 1..NumBatchesOf(obs_rows) |-> {}]
    /\ tpc' = "create_dataloader"
    /\ UNCHANGED <<obs_rows, mt_stream, epochvars, batchvars, decodevars, t_raised,
                   othervars>>

\* cells 7dfe3c75 and 39d30df2: train_datapipe.shuffle(), then
\* experiment_dataloader = census_ml.experiment_dataloader(...)
CreateDataLoader ==
    /\ tpc = "create_dataloader"
    /\ experiment_dataloader' = "train"
    /\ tpc' = "train_setup"
    /\ UNCHANGED <<splitvars, epoch, dl_iter, epoch_counts, returned, train_correct,
                   train_total, train_accuracy, batchvars, decodevars, t_raised,
                   othervars>>

\* cell 733ec2fb, lines 483-498: seeds, model, loss_fn, optimizer, range(5)
StartTraining ==
    /\ tpc = "train_setup"
    /\ epoch' = 0
    /\ tpc' = "training_loop"
    /\ UNCHANGED <<splitvars, experiment_dataloader, dl_iter, epoch_counts, returned,
                   train_correct, train_total, train_accuracy, batchvars, decodevars,
                   t_raised, othervars>>

\* one pass of SplitterIterator(target).__iter__ over the first n samples of
\* the source: reset(), then one draw() per sample
Traverse(entropy, n) == DrawAll(reset(obs_rows, entropy), mt_stream, n)
SeenAfter(tr) ==
    [k \in DOMAIN draws_seen |->
        IF k <= Len(tr.keys) THEN draws_seen[k] \cup {tr.keys[k]} ELSE draws_seen[k]]
YieldedAfter(tr, target) ==
    [k \in DOMAIN yielded_by |->
        IF k <= Len(tr.keys) /\ tr.keys[k] = target
        THEN yielded_by[k] \cup {target} ELSE yielded_by[k]]

\* an iterator that goes on where the previous one of the DataLoader stopped
iter_dataloader_exhausted(previous, fresh) == previous

\* line 364, iter(train_dataloader): a DataLoader makes a new iterator over
\* its datapipe each time
iter_dataloader(previous, fresh) == fresh

\* line 499 and lines 359-364: train_epoch is called; the for statement
\* takes an iterator of the DataLoader.  The Shuffler reads the train split
\* to its end (fewer samples than its buffer) and yields them in random order
CallTrainEpoch ==
    /\ tpc = "training_loop"
    /\ epoch < NumEpochs
    /\ \E entropy \in 0..(Len(mt_stream) - 1) :
         LET tr      == Traverse(entropy, NumBatchesOf(obs_rows))
             members == {k \in 1..Len(tr.keys) : tr.keys[k] = experiment_dataloader}
         IN  /\ splitter' = tr.state
             /\ draws_seen' = SeenAfter(tr)
             /\ yielded_by' = YieldedAfter(tr, experiment_dataloader)
             /\ \E order \in Orders(members) :
                   dl_iter' = iter_dataloader(dl_iter, order)
    /\ train_correct' = 0
    /\ train_total' = 0
    /\ epoch_counts' = Append(epoch_counts, [k \in 1..NumBatchesOf(obs_rows) |-> 0])
    /\ tpc' = "train_epoch"
    /\ UNCHANGED <<obs_rows, mt_stream, experiment_dataloader, epoch, returned,
                   train_accuracy, batchvars, decodevars, t_raised, othervars>>

\* lines 365-389: the body of the for statement for the next batch
TrainBatch ==
    /\ tpc = "train_epoch"
    /\ dl_iter # <<>>
    /\ y_batch' = y_tensor(obs_rows, Head(dl_iter))
    /\ predictions' \in [1..Len(y_batch') -> 0..(output_dim(obs_rows) - 1)]
    /\ compared_labels' = label_column(y_batch')
    /\ train_correct' = train_correct + CountEqual(predictions', compared_labels')
    /\ train_total' = train_total + Len(predictions')
    /\ loss_target' = compared_labels'
    /\ epoch_counts' = [epoch_counts EXCEPT ![Len(epoch_counts)][Head(dl_iter)] = @ + 1]
    /\ dl_iter' = Tail(dl_iter)
    /\ UNCHANGED <<splitvars, experiment_dataloader, epoch, returned, train_accuracy,
                   decodevars, tpc, t_raised, othervars>>

\* lines 391-393 and 500: the iterator is exhausted; train_epoch divides by
\* train_total and returns, the loop prints and takes the next epoch
ReturnTrainEpoch ==
    /\ tpc = "train_epoch"
    /\ dl_iter = <<>>
    /\ IF train_total = 0
       THEN /\ t_raised' = "ZeroDivisionError"
            /\ tpc' = "error"
            /\ UNCHANGED <<train_accuracy, returned, epoch>>
       ELSE /\ train_accuracy' = <<train_correct, train_total>>
            /\ returned' = returned + 1
            /\ epoch' = epoch + 1
            /\ tpc' = "training_loop"
            /\ UNCHANGED t_raised
    \* the locals of train_epoch end with the call
    /\ train_correct' = 0 /\ train_total' = 0
    /\ y_batch' = <<>> /\ predictions' = <<>>
    /\ compared_labels' = <<>> /\ loss_target' = <<>>
    /\ UNCHANGED <<splitvars, experiment_dataloader, dl_iter, epoch_counts,
                   decodevars, othervars>>

\* cell d3e33edc: experiment_dataloader is rebound to a DataLoader of
\* test_datapipe; next(iter(...)) runs SplitterIterator("test") up to its
\* first sample, and raises StopIteration if it has none
TestBatch ==
    /\ tpc = "training_loop"
    /\ epoch = NumEpochs
    /\ experiment_dataloader' = "test"
    /\ \E entropy \in 0..(Len(mt_stream) - 1) :
         LET all   == Traverse(entropy, NumBatchesOf(obs_rows))
             hits  == {k \in 1..Len(all.keys) : all.keys[k] = "test"}
             first == IF hits = {} THEN Len(all.keys)
                      ELSE CHOOSE k \in hits : \A j \in hits : k <= j
             tr    == Traverse(entropy, first)
         IN  /\ splitter' = tr.state
             /\ draws_seen' = SeenAfter(tr)
             /\ yielded_by' = YieldedAfter(tr, "test")
             /\ IF hits = {}
                THEN /\ t_raised' = "StopIteration"
                     /\ tpc' = "error"
                     /\ UNCHANGED y_batch
                ELSE /\ y_batch' = y_tensor(obs_rows, first)
                     /\ tpc' = "predict"
                     /\ UNCHANGED t_raised
    /\ UNCHANGED <<obs_rows, mt_stream, epoch, dl_iter, epoch_counts, returned,
                   train_correct, train_total, train_accuracy, predictions,
                   compared_labels, loss_target, decodevars, othervars>>

\* cell 00e12182: model.eval(), the predictions for the test batch
Predict ==
    /\ tpc = "predict"
    /\ predictions' \in [1..Len(y_batch) -> 0..(output_dim(obs_rows) - 1)]
    /\ tpc' = "decode"
    /\ UNCHANGED <<splitvars, epochvars, y_batch, compared_labels, loss_target,
                   decodevars, t_raised, othervars>>

\* lines 491 and 629: cell_type_encoder = experiment_datapipe.obs_encoders["cell_type"]
cell_type_encoder == obs_encoders_cell_type(obs_rows)

\* cell 1cfff865: predicted_cell_types
DecodePredictions ==
    /\ tpc = "decode"
    /\ predicted_cell_types' = inverse_transform(cell_type_encoder, predictions)
    /\ tpc' = "frame"
    /\ UNCHANGED <<splitvars, epochvars, batchvars, result_frame, t_raised, othervars>>

\* cell f4ac8087: the DataFrame of actual and predicted cell types
BuildFrame ==
    /\ tpc = "frame"
    /\ result_frame' =
          [i \in 1..Len(y_batch) |->
              [actual_cell_type    |->
                   inverse_transform(cell_type_encoder, label_column(y_batch))[i],
               predicted_cell_type |-> predicted_cell_types[i]]]
    /\ tpc' = "done"
    /\ UNCHANGED <<splitvars, epochvars, batchvars, predicted_cell_types, t_raised,
                   othervars>>

TrainNext ==
    \/ RandomSplit
    \/ CreateDataLoader
    \/ StartTraining
    \/ CallTrainEpoch
    \/ TrainBatch
    \/ ReturnTrainEpoch
    \/ TestBatch
    \/ Predict
    \/ DecodePredictions
    \/ BuildFrame

\* ------------------------------------------------------ the specifications
NotebookIdle ==
    /\ census = "" /\ query = ""
    /\ X = <<>> /\ obs_df = <<>> /\ datasets_df = <<>> /\ row_stride = 0
    /\ iter_pos = 0 /\ obs_soma_joinids_chunk = <<>> /\ X_chunk = CsrMatrix(<<>>)
    /\ r = 0 /\ hashes = <<>> /\ times_hashed = <<>> /\ prog_value = 0
    /\ pc = "not_run" /\ raised = "" /\ defined = {}
    /\ value_counts_frame = <<>> /\ hash_primary_pivot = <<>>
    /\ obs_missing_primary = <<>> /\ datasets_with_missing_primary = <<>>
    /\ obs_duplicate_primary = <<>> /\ datasets_with_dup_primary = <<>>
    /\ overlapping_dup_datasets = <<>> /\ displayed_datasets = <<>>

TrainIdle ==
    /\ obs_rows = <<>> /\ mt_stream = <<>> /\ splitter = <<>>
    /\ draws_seen = <<>> /\ yielded_by = <<>>
    /\ experiment_dataloader = "" /\ epoch = 0 /\ dl_iter = <<>> /\ epoch_counts = <<>> /\ returned = 0
    /\ train_correct = 0 /\ train_total = 0 /\ train_accuracy = <<>>
    /\ y_batch = <<>> /\ predictions = <<>> /\ compared_labels = <<>>
    /\ loss_target = <<>> /\ predicted_cell_types = <<>> /\ result_frame = <<>>
    /\ tpc = "not_run" /\ t_raised = ""

TriggerIdle == ci_event = NoEvent /\ ci_triggered = FALSE
JobIdle == job_instance = Submit /\ step_log = <<>> /\ job_conclusion = "not_run"
WorkflowIdle ==
    /\ wf_status = [j \in Instances |-> "not_run"]
    /\ wf_cancel_requested = FALSE
    /\ wf_submit_log = <<>>
    /\ wf_submit_started = FALSE

\* the hashing cell of the notebook (cell 2)
Init == NotebookInit /\ TriggerIdle /\ JobIdle /\ WorkflowIdle /\ TrainIdle

Spec == Init /\ [][Next]_vars

\* the report cells of the notebook (cells 3 to 9)
ReportsSpecInit == ReportsInit /\ TriggerIdle /\ JobIdle /\ WorkflowIdle /\ TrainIdle
SpecReports == ReportsSpecInit /\ [][ReportsNext]_vars

\* the report cells for a query of primary cells only
OverlapSpecInit == OverlapInit /\ TriggerIdle /\ JobIdle /\ WorkflowIdle /\ TrainIdle
SpecOverlap == OverlapSpecInit /\ [][ReportsNext]_vars

\* the training notebook, from the split of the dataset on
TrainInit ==
    /\ NotebookIdle /\ TriggerIdle /\ JobIdle /\ WorkflowIdle
    /\ TrainingInputs(MaxRows, CellTypes, TrainTestVariates)
    /\ TrainingNotStarted
SpecTrain == TrainInit /\ [][TrainNext]_vars

\* the training notebook for a query whose rows all have the same cell_type
SplitInit ==
    /\ NotebookIdle /\ TriggerIdle /\ JobIdle /\ WorkflowIdle
    /\ TrainingInputs(MaxSplitRows, {Vocabulary[1]}, Variates)
    /\ TrainingNotStarted
SpecSplit == SplitInit /\ [][TrainNext]_vars

\* events delivered to the repository
TriggerInit == NotebookIdle /\ TriggerIdle /\ JobIdle /\ WorkflowIdle /\ TrainIdle
TriggerNext == Push \/ PullRequest
SpecTrigger == TriggerInit /\ [][TriggerNext]_vars

\* one job instance of the workflow on its runner
JobInit ==
    /\ NotebookIdle /\ TriggerIdle /\ WorkflowIdle /\ TrainIdle
    /\ job_instance \in Instances
    /\ step_log = <<>>
    /\ job_conclusion = ""
JobNext == RunStep \/ CompleteJob
SpecJob == JobInit /\ [][JobNext]_vars

\* one run of the workflow, from the moment its jobs are queued
WorkflowInit ==
    /\ NotebookIdle /\ TriggerIdle /\ JobIdle /\ TrainIdle
    /\ wf_status = [j \in Instances |-> "queued"]
    /\ wf_cancel_requested = FALSE
    /\ wf_submit_log = <<>>
    /\ wf_submit_started = FALSE
WorkflowNext ==
    \/ RunTestJob
    \/ CancelJob
    \/ CancelRun
    \/ SubmitStart
    \/ SubmitStep
    \/ SubmitComplete
SpecWorkflow == WorkflowInit /\ [][WorkflowNext]_vars

\* ======================================================================
\* Properties of the find-duplicates notebook (specification Spec)
\* ======================================================================
\* line 119 has run: the outer for ended by exhaustion
HashLoopEnded == HasHashColumn(obs_df)
Hashed(c) == times_hashed[c] > 0
ChunkOf(c) == c \div row_stride
RowInChunk(c) == c % row_stride

\* the digest of a cell computed from its own dense row alone
OwnRowHash(c) ==
    RowHash([data    |-> RowData(X[c]),
             indices |-> RowIndices(X[c]),
             indptr  |-> <<0, Len(RowData(X[c]))>>])

\* C1: two cells are assigned the same hash only if their count vectors are
\* equal in every gene column (xxh3_128 taken as collision-free).
C1_SameHashOnlyIfSameCounts ==
    \A c1, c2 \in Joinids :
        (Hashed(c1) /\ Hashed(c2) /\ hashes[c1] = hashes[c2]) => X[c1] = X[c2]

\* C4: two cells with identical count vectors receive the same hash, whatever
\* chunk each falls in and whatever its row position inside the chunk.
C4_SameCountsSameHash ==
    \A c1, c2 \in Joinids :
        (Hashed(c1) /\ Hashed(c2) /\ X[c1] = X[c2]) => hashes[c1] = hashes[c2]

\* C4 witness: two hashed cells with the same non-zero vector that lie in
\* different chunks at different row positions, the later one behind a
\* non-empty row of its chunk.
C4_Witness ==
    \E c1, c2 \in Joinids :
        /\ Hashed(c1) /\ Hashed(c2)
        /\ X[c1] = X[c2]
        /\ \E g \in 1..NumGenes : X[c1][g] # 0
        /\ ChunkOf(c1) # ChunkOf(c2)
        /\ RowInChunk(c1) # RowInChunk(c2)
        /\ \E c0 \in Joinids :
              /\ ChunkOf(c0) = ChunkOf(c1) /\ c0 < c1
              /\ \E g \in 1..NumGenes : X[c0][g] # 0

\* C5: when the loop has ended every row of obs_df has been hashed exactly
\* once, carries a non-empty hash, and the hash stored for a soma_joinid is
\* the hash of that cell's own row.
C5_AllCellsHashedOnce ==
    HashLoopEnded =>
        /\ \A c \in Joinids :
              /\ times_hashed[c] = 1
              /\ hashes[c] # EmptyString
              /\ hashes[c] = OwnRowHash(c)
        /\ \A i \in 1..n_obs :
              obs_df[i].hash = OwnRowHash(obs_df[i].soma_joinid)

\* C5 witness: the loop has ended over several chunks, one of them with more
\* than one row, and some cell has no non-zero entry.
C5_Witness ==
    /\ pc = "cell3"
    /\ prog_value > 1
    /\ row_stride > 1
    /\ \E c \in Joinids : \A g \in 1..NumGenes : X[c][g] = 0
    /\ \E c \in Joinids : \E g \in 1..NumGenes : X[c][g] # 0

InLoop == pc \in {"for_chunk", "for_row"}
ChunkCells(k) == {c \in Joinids : ChunkOf(c) = k}
\* chunks of which some but not all rows are hashed
ChunksInProgress ==
    {k \in 0..(NumChunks(n_obs, row_stride) - 1) :
        /\ \E c \in ChunkCells(k) : Hashed(c)
        /\ \E c \in ChunkCells(k) : ~Hashed(c)}

\* C16: while the hashing cell runs without failure, the rows of the chunks
\* requested before the chunk at hand are all hashed and stored, the chunk at
\* hand is hashed up to row r, no row of a later chunk is hashed, prog.value
\* counts the chunks completed (it is raised once per chunk, after the last
\* row), at most one chunk is in progress, and obs_df gets its hash column
\* only when every chunk was consumed.
C16_ChunksConsumedInSequence ==
    (pc \in {"for_chunk", "for_row", "cell3"} /\ raised = "") =>
        /\ Cardinality(ChunksInProgress) <= 1
        /\ pc = "for_chunk" =>
              /\ prog_value = iter_pos
              /\ \A c \in Joinids : Hashed(c) <=> ChunkOf(c) < iter_pos
        /\ pc = "for_row" =>
              /\ prog_value = iter_pos - 1
              /\ \A c \in Joinids :
                    Hashed(c) <=> \/ ChunkOf(c) < iter_pos - 1
                                  \/ ChunkOf(c) = iter_pos - 1 /\ RowInChunk(c) < r
        /\ InLoop => ~HasHashColumn(obs_df)
        /\ HasHashColumn(obs_df) =>
              /\ iter_pos = NumChunks(n_obs, row_stride)
              /\ prog_value = NumChunks(n_obs, row_stride)
              /\ \A c \in Joinids : times_hashed[c] = 1

\* C16 witness: a first chunk of two rows was hashed and counted once, and
\* the second chunk is at hand with its row still to be hashed.
C16_Witness ==
    /\ pc = "for_row"
    /\ raised = ""
    /\ row_stride = 2
    /\ iter_pos = 2
    /\ prog_value = 1
    /\ r = 0
    /\ Len(obs_soma_joinids_chunk) = 1
    /\ Cardinality({c \in Joinids : Hashed(c)}) = 2

Cell2Failed == raised = "Exception" \/ pc = "cell2_aborted"

\* C17: once a chunk read or a row hash has raised, the cell is aborted with
\* the query and the census closed, the loop never goes on (no further row
\* is hashed, no chunk requested, no progress made), obs_df never gets a hash
\* column and no report variable is ever computed.
C17_NoRecoveryAfterFailure ==
    /\ [](Cell2Failed =>
             /\ pc \in {"cell2_aborted", "error"}
             /\ query = "closed" /\ census = "closed"
             /\ ~HasHashColumn(obs_df)
             /\ value_counts_frame = <<>>
             /\ defined = {})
    /\ [][Cell2Failed =>
             UNCHANGED <<hashes, times_hashed, iter_pos, r, prog_value, obs_df,
                         obs_soma_joinids_chunk, X_chunk>>]_vars

\* C17 witness: the cell was aborted in its second chunk, after hashes of
\* the first chunk were stored, and cell 3 has then failed on obs_df.
C17_Witness ==
    /\ pc = "error"
    /\ raised = "KeyError"
    /\ iter_pos = 2
    /\ \E c \in Joinids : Hashed(c)
    /\ \E c \in Joinids : ~Hashed(c)

\* ---- reports
Bound(name) == name \in defined
\* the rows of a report variable; none while the variable is unbound
ReportRows(name, v) == IF Bound(name) THEN v ELSE <<>>
Attempted(cells_before) == pc \notin cells_before
BeforeCell5 == {"for_chunk", "for_row", "cell3", "cell4", "cell5"}
BeforeCell7 == BeforeCell5 \cup {"cell6", "cell7"}

CountRows(rows, joinid) == Cardinality({k \in 1..Len(rows) : rows[k].soma_joinid = joinid})
CellsWith(h, b) == {i \in 1..n_obs : obs_df[i].hash = h /\ obs_df[i].is_primary_data = b}
HasPrimaryCopy(i) == CellsWith(obs_df[i].hash, TRUE) # {}
HasOtherPrimaryCopy(i) == CellsWith(obs_df[i].hash, TRUE) \ {i} # {}

\* C2: once the hashing and pivot cells have run and cell 5 was executed, a
\* cell is a row of obs_missing_primary iff no cell of the query with the same
\* hash has is_primary_data == True; each such cell appears exactly once, with
\* its own dataset_id and is_primary_data == False.
C2_MissingPrimaryExact ==
    Attempted(BeforeCell5) =>
        LET rows == ReportRows("obs_missing_primary", obs_missing_primary)
        IN  /\ \A i \in 1..n_obs :
                  CountRows(rows, obs_df[i].soma_joinid) =
                      IF HasPrimaryCopy(i) THEN 0 ELSE 1
            /\ \A k \in 1..Len(rows) :
                  \E i \in 1..n_obs :
                      /\ obs_df[i].soma_joinid = rows[k].soma_joinid
                      /\ obs_df[i].dataset_id = rows[k].dataset_id
                      /\ rows[k].is_primary_data = FALSE

\* C3: once cell 7 was executed, a cell is a row of obs_duplicate_primary iff
\* it has is_primary_data == True and another cell of the query with the same
\* hash has is_primary_data == True; non-primary copies are never rows.
C3_DuplicatePrimaryExact ==
    Attempted(BeforeCell7) =>
        LET rows == ReportRows("obs_duplicate_primary", obs_duplicate_primary)
        IN  /\ \A i \in 1..n_obs :
                  (CountRows(rows, obs_df[i].soma_joinid) > 0) <=>
                      (obs_df[i].is_primary_data /\ HasOtherPrimaryCopy(i))
            /\ \A k \in 1..Len(rows) : rows[k].is_primary_data = TRUE

\* C3 witness: cell 7 has produced a non-empty report for a query in which a
\* duplicated hash also has a non-primary copy.
C3_Witness ==
    /\ pc = "cell8"
    /\ Len(obs_duplicate_primary) > 1
    /\ \E i \in 1..n_obs :
          /\ ~obs_df[i].is_primary_data
          /\ Cardinality(CellsWith(obs_df[i].hash, TRUE)) > 1

\* C9: for every hash h of obs_df the pivot's True entry is the number of
\* cells with hash h and is_primary_data == True, its False entry the number
\* with is_primary_data == False (0 where there is none), the two sum to the
\* number of cells with hash h, and all entries sum to the rows of obs_df.
C9_PivotCountsEveryCell ==
    Bound("hash_primary_pivot") =>
        LET pv == hash_primary_pivot
            hs == {obs_df[i].hash : i \in 1..n_obs}
        IN  /\ Range(pv.index) = hs
            /\ HasColumn(pv, TRUE)
            /\ HasColumn(pv, FALSE)
            /\ \A h \in hs :
                  /\ pv.values[<<h, TRUE>>] = Cardinality(CellsWith(h, TRUE))
                  /\ pv.values[<<h, FALSE>>] = Cardinality(CellsWith(h, FALSE))
                  /\ pv.values[<<h, TRUE>>] + pv.values[<<h, FALSE>>] =
                        Cardinality({i \in 1..n_obs : obs_df[i].hash = h})
            /\ SumSeq([k \in 1..Len(pv.index) |->
                         pv.values[<<pv.index[k], TRUE>>] + pv.values[<<pv.index[k], FALSE>>]])
                  = n_obs

\* a per-dataset report agrees with the per-cell report it was computed from
Agrees(per_dataset, per_cell) ==
    /\ \A d \in Datasets :
          Cardinality({k \in 1..Len(per_dataset) : per_dataset[k].dataset_id = d}) =
              IF \E i \in 1..Len(per_cell) : per_cell[i].dataset_id = d THEN 1 ELSE 0
    /\ \A k \in 1..Len(per_dataset) :
          per_dataset[k].count =
              Cardinality({i \in 1..Len(per_cell) :
                              per_cell[i].dataset_id = per_dataset[k].dataset_id})
    /\ SumSeq([k \in 1..Len(per_dataset) |-> per_dataset[k].count]) = Len(per_cell)

\* C10: datasets_with_missing_primary has exactly one row per dataset_id of
\* obs_missing_primary, its count is the number of rows of obs_missing_primary
\* with that dataset_id and the counts sum to the rows of obs_missing_primary;
\* the same for datasets_with_dup_primary and obs_duplicate_primary; a dataset
\* without a cell in the per-cell report never appears.
C10_DatasetReportsAgree ==
    /\ Bound("datasets_with_missing_primary") =>
          Agrees(datasets_with_missing_primary, obs_missing_primary)
    /\ Bound("datasets_with_dup_primary") =>
          Agrees(datasets_with_dup_primary, obs_duplicate_primary)

\* C10 witness: both per-dataset reports exist, a dataset holds two rows of a
\* per-cell report, and some dataset has no cell in the missing-primary report.
C10_Witness ==
    /\ Bound("datasets_with_dup_primary")
    /\ Len(obs_missing_primary) > 0
    /\ \E k \in 1..Len(datasets_with_dup_primary) : datasets_with_dup_primary[k].count > 1
    /\ \E d \in Datasets : \A i \in 1..Len(obs_missing_primary) :
          obs_missing_primary[i].dataset_id # d

BeforeCell9 == BeforeCell7 \cup {"cell8", "cell9"}
DupHashes == {h \in {obs_df[i].hash : i \in 1..n_obs} : Cardinality(CellsWith(h, TRUE)) > 1}
Occurrences(list, d) == Cardinality({k \in 1..Len(list) : list[k] = d})

\* list is the dataset_id list of the primary cells of hash h: it names each
\* dataset as often as the dataset holds primary cells with hash h
IsDatasetListOf(list, h) ==
    \A d \in Datasets \cup Range(list) :
        Occurrences(list, d) =
            Cardinality({i \in CellsWith(h, TRUE) : obs_df[i].dataset_id = d})

\* C11: once cell 9 was executed, every entry of overlapping_dup_datasets is
\* the dataset_id list of the primary cells of some duplicated hash, every
\* duplicated hash has its list among the entries, no list is entered twice,
\* one table of exactly the datasets of the entry is displayed per entry, and
\* without a duplicated hash the report is empty and no table is displayed.
C11_OverlapReportsDuplicatedHashes ==
    Attempted(BeforeCell9) =>
        LET entries == ReportRows("overlapping_dup_datasets", overlapping_dup_datasets)
        IN  /\ \A k \in 1..Len(entries) : \E h \in DupHashes : IsDatasetListOf(entries[k], h)
            /\ \A h \in DupHashes : \E k \in 1..Len(entries) : IsDatasetListOf(entries[k], h)
            /\ \A k1, k2 \in 1..Len(entries) : entries[k1] = entries[k2] => k1 = k2
            /\ Len(displayed_datasets) = Len(entries)
            /\ \A k \in 1..Len(entries) :
                  /\ Len(displayed_datasets[k]) = Len(entries[k])
                  /\ \A m \in 1..Len(entries[k]) :
                        displayed_datasets[k][m].dataset_id = entries[k][m]
            /\ DupHashes = {} => (entries = <<>> /\ displayed_datasets = <<>>)

\* C11 witness: cell 9 has run on a query with two duplicated hashes whose
\* primary cells lie in the same two datasets, and
\* the report has a single entry.
C11_Witness ==
    /\ pc = "done"
    /\ Cardinality(DupHashes) = 2
    /\ Len(overlapping_dup_datasets) = 1
    /\ \E d1, d2 \in Datasets : d1 # d2 /\ overlapping_dup_datasets[1] = <<d1, d2>>

\* ======================================================================
\* Properties of the workflow (SpecTrigger, SpecJob, SpecWorkflow)
\* ======================================================================
IsTestJob == job_instance \in TestInstances
JobSteps == Steps(job_instance.job)
JobConcluded == job_conclusion \in {"success", "failure"}

\* C6: in unit_tests_python_api and unit_tests_builder the steps are processed
\* strictly in the listed order, the job succeeds if every step succeeds, and
\* if a pytest step fails the job fails and no later step of it is executed.
C6_StepsInOrderAndFailStops ==
    IsTestJob =>
        /\ Len(step_log) <= Len(JobSteps)
        /\ \A i \in 1..Len(step_log) : step_log[i].step = JobSteps[i].name
        /\ JobConcluded => Len(step_log) = Len(JobSteps)
        /\ (JobConcluded /\ NoFailure(step_log)) => job_conclusion = "success"
        /\ \A i \in 1..Len(step_log) :
              (JobSteps[i].pytest /\ step_log[i].outcome = "failure") =>
                  /\ \A k \in (i + 1)..Len(step_log) : step_log[k].outcome = "skipped"
                  /\ JobConcluded => job_conclusion = "failure"

\* C6 witness: a unit_tests_python_api instance on ubuntu-latest whose main
\* pytest step failed has concluded, the experimental pytest step and the
\* upload behind it.
C6_Witness ==
    /\ job_instance.job = "unit_tests_python_api"
    /\ job_instance.os = "ubuntu-latest"
    /\ JobConcluded
    /\ Len(step_log) = Len(JobSteps)
    /\ step_log[4].outcome = "failure"

AllNeededSucceeded == \A j \in TestInstances : wf_status[j] = "success"
SubmitRan(name) ==
    \E i \in 1..Len(wf_submit_log) :
        wf_submit_log[i].step = name /\ wf_submit_log[i].outcome # "skipped"

\* C7: submit-codecoverage starts only after unit_tests_builder and every
\* matrix instance of unit_tests_python_api have finished successfully; if any
\* of them fails or is cancelled, no coverage report is combined and nothing
\* is uploaded to Codecov in that run.
C7_SubmitOnlyAfterAllTestsSucceed ==
    /\ (wf_submit_started \/ wf_status[Submit] \in {"in_progress", "success", "failure"}
           \/ wf_submit_log # <<>>) => AllNeededSucceeded
    /\ (\E j \in TestInstances : wf_status[j] \in {"failure", "cancelled"}) =>
          /\ ~SubmitRan("coverage report")
          /\ ~SubmitRan("Upload coverage to Codecov")
          /\ ~wf_submit_started

\* C7 witness: all nine test job instances succeeded and submit-codecoverage
\* has run its upload step.
C7_Witness ==
    /\ AllNeededSucceeded
    /\ SubmitRan("coverage report")
    /\ SubmitRan("Upload coverage to Codecov")

UnderApiR(path) == Len(path) >= 3 /\ path[1] = "api" /\ path[2] = "r"

\* C8: a push triggers the workflow only when the pushed branch is main; a
\* pull request triggers it unless every changed file lies under api/r/, and
\* always when at least one changed file lies outside api/r/.
C8_Triggers ==
    /\ (ci_event.type = "push" /\ ci_triggered) =>
          (ci_event.ref_type = "branch" /\ ci_event.ref = "main")
    /\ ci_event.type = "pull_request" =>
          (ci_triggered <=> \E f \in ci_event.changed : ~UnderApiR(f))

\* C8 witness: a pull request changing a file under api/r/ and a file outside
\* it has triggered the workflow.
C8_Witness ==
    /\ ci_event.type = "pull_request"
    /\ ci_triggered
    /\ \E f \in ci_event.changed : UnderApiR(f)
    /\ \E f \in ci_event.changed : ~UnderApiR(f)

\* ======================================================================
\* Properties of the training notebook (SpecSplit, SpecTrain)
\* ======================================================================
Batches == 1..NumBatchesOf(obs_rows)
\* the batches SplitterIterator(target) yields when iterated to its end
SplitMembers(target) ==
    {k \in Batches : Traverse(0, NumBatchesOf(obs_rows)).keys[k] = target}
CallsStarted == Len(epoch_counts)
TrainingEnded == tpc \in {"predict", "decode", "frame", "done"} \/ t_raised = "StopIteration"
OnceIfTrain(k) == IF k \in SplitMembers("train") THEN 1 ELSE 0

\* C12: each call of train_epoch takes a new iterator and runs it from its
\* beginning to its end: during a call every batch of the train split is
\* either processed once or still to come, after it every such batch was
\* processed exactly once and no other batch at all; a call starts only when
\* the one before has returned, and training ends after NumEpochs calls.
C12_EveryEpochEveryBatchOnce ==
    tpc # "not_run" =>
        /\ CallsStarted <= NumEpochs
        /\ returned <= CallsStarted /\ CallsStarted <= returned + 1
        /\ (CallsStarted = returned + 1) <=> (tpc = "train_epoch" \/ t_raised = "ZeroDivisionError")
        /\ epoch = returned
        /\ \A e \in 1..returned : \A k \in Batches : epoch_counts[e][k] = OnceIfTrain(k)
        /\ tpc = "train_epoch" =>
              \A k \in Batches :
                  epoch_counts[CallsStarted][k] + Occurrences(dl_iter, k) = OnceIfTrain(k)
        /\ TrainingEnded => returned = NumEpochs

\* C12 witness: the fifth call has returned for a train split of more than
\* one batch, beside a batch that is not in the train split.
C12_Witness ==
    /\ returned = NumEpochs
    /\ Cardinality(SplitMembers("train")) > 1
    /\ SplitMembers("train") # Batches

BatchJoinids(k) == {BatchRows(obs_rows, k)[i].soma_joinid : i \in 1..Len(BatchRows(obs_rows, k))}
ProcessedInTraining == {k \in Batches : \E e \in 1..CallsStarted : epoch_counts[e][k] > 0}
TestBatchTaken == tpc \in {"predict", "decode", "frame", "done"}

\* C15: over all iterations of the splits every batch of experiment_datapipe
\* is drawn the same key, it is yielded only by the split of that key, once
\* a split was iterated to its end every batch (so every row) has exactly one
\* of the three keys, and the rows of the test batch used for prediction are
\* rows of no batch processed in training.
C15_SplitsPartitionRows ==
    tpc \notin {"not_run", "random_split"} =>
        /\ \A k \in Batches : Cardinality(draws_seen[k]) <= 1
        /\ \A k \in Batches : yielded_by[k] \subseteq draws_seen[k]
        /\ CallsStarted > 0 =>
              /\ \A k \in Batches : \E t \in Range(keys) : draws_seen[k] = {t}
              /\ \A i \in 1..Len(obs_rows) :
                    Cardinality({t \in Range(keys) :
                        \E k \in Batches : /\ t \in draws_seen[k]
                                            /\ obs_rows[i].soma_joinid \in BatchJoinids(k)}) = 1
        /\ TestBatchTaken =>
              \A k \in ProcessedInTraining :
                  BatchJoinids(k) \cap {y_batch[i][1] : i \in 1..Len(y_batch)} = {}

\* C15 witness: training is over, the test batch is taken, and each of the
\* three splits has a batch.
C15_Witness ==
    /\ TestBatchTaken
    /\ returned = NumEpochs
    /\ \A t \in Range(keys) : \E k \in Batches : draws_seen[k] = {t}

RowOf(joinid) == CHOOSE row \in Range(obs_rows) : row.soma_joinid = joinid
\* the code of the cell_type of the obs row behind row i of a y tensor: the
\* number of cell_type values of the query that sort before it
CodeOfRow(y, i) ==
    Cardinality({str \in Range(CellTypeColumn(obs_rows)) :
                    StrRank(str) < StrRank(RowOf(y[i][1]).cell_type)})
BatchProcessed ==
    /\ tpc = "train_epoch" /\ tpc' = "train_epoch"
    /\ epoch_counts' # epoch_counts

C14_LabelsDecodeToCellTypes ==
    tpc # "not_run" =>
        /\ \A str \in Range(cell_type_encoder) :
              inverse_transform(cell_type_encoder,
                                <<transform(cell_type_encoder, str)>>) = <<str>>
        /\ tpc \in {"frame", "done"} =>
              \A i \in 1..Len(predictions) :
                  /\ predicted_cell_types[i] \in Range(cell_type_encoder)
                  /\ transform(cell_type_encoder, predicted_cell_types[i]) = predictions[i]
        /\ tpc = "done" =>
              /\ Len(result_frame) = Len(y_batch)
              /\ \A i \in 1..Len(y_batch) :
                    /\ result_frame[i].actual_cell_type = RowOf(y_batch[i][1]).cell_type
                    /\ result_frame[i].predicted_cell_type = predicted_cell_types[i]

\* C14 witness: the frame is built for a test batch of two rows of different
\* cell types, with a prediction that is wrong.
C14_Witness ==
    /\ tpc = "done"
    /\ Len(result_frame) = 2
    /\ result_frame[1].actual_cell_type # result_frame[2].actual_cell_type
    /\ \E i \in 1..2 : result_frame[i].actual_cell_type # result_frame[i].predicted_cell_type

====
